---- MODULE Spec2Model ----
(***************************************************************************)
(* rustycanvas backend: the pixel store (a sled key-value tree), the       *)
(* bounded update history and the four axum handlers that work on them     *)
(* (backend/src/server/handlers.rs).                                       *)
(*                                                                         *)
(* Handlers run as concurrent tasks on the tokio runtime.  Every sled call *)
(* (get, insert, clear, flush) is one atomic step on the shared tree; the  *)
(* history is guarded by an RwLock, so a whole read section or write       *)
(* section of it is one atomic step.  Steps of different handlers          *)
(* interleave freely.                                                      *)
(***************************************************************************)
EXTENDS Integers, Sequences, FiniteSets, TLC

(***************************************************************************)
(* Bounds of the model.  The canvas of the program is 32 x 16              *)
(* (state.rs:59); the handlers only compare against CANVAS_WIDTH and       *)
(* CANVAS_HEIGHT, and the model runs them on a small canvas.               *)
(***************************************************************************)
CANVAS_WIDTH == 2
CANVAS_HEIGHT == 1
\* requests (of any kind) accepted in one behaviour
MaxRequests == 2
\* largest value the millisecond clock takes
MaxClock == 3

(***************************************************************************)
(* Program constants.                                                      *)
(***************************************************************************)
DEFAULT_COLOR == "#000000"
\* the literal 50 of log_pixel_update and fetch_updates_since
HISTORY_LIMIT == 50

\* runtime workers: as many handlers run at the same time
Procs == {"h1", "h2"}
\* the workers are interchangeable: a new POST /pixel takes the first free one
ProcOrder == <<"h1", "h2">>
\* inputs of POST /pixel (x, y are u32): the two opposite corners of the
\* canvas and the first cell past its right and its bottom edge
CellInputs == {<<0, 0>>, <<CANVAS_WIDTH - 1, CANVAS_HEIGHT - 1>>,
               <<CANVAS_WIDTH, 0>>, <<0, CANVAS_HEIGHT>>}
Colors == {DEFAULT_COLOR, "#FF0000"}
\* inputs of GET /updates?since=
SinceInputs == 0..MaxClock

VARIABLES
    db,          \* sled tree as seen by get/insert/clear: key -> bytes
    disk,        \* what the last successful flush made durable
    history,     \* AppState.history: VecDeque<PixelUpdate>, front first
    clock,       \* SystemTime::now() in epoch milliseconds, as last read
    pc,          \* per task: position inside update_pixel_handler
    req,         \* per task: the PixelUpdateInput payload
    ts,          \* per task: the timestamp read in log_pixel_update
    rpc,         \* position inside reset_canvas_handler
    scanning,    \* make_canvas_response is in progress
    scanRow,     \* its local `row`
    scanPixels,  \* its local `pixels`
    lastResp,    \* the response most recently returned by any handler
    nreq,        \* requests accepted so far
    durable,     \* per task: insert and flush of its request both succeeded
    appended,    \* history variable: every event ever pushed, oldest first
    scanGrids,   \* history variable: the grids the tree has held since the
                 \* make_canvas_response in progress began
    horizon,     \* the last millisecond of the observed run
    client,      \* a polling client: its local grid, cursor and position
    lastWrite,   \* history variable, per cell that is followed: the latest
                 \* db.insert of the cell since the last db.clear, and
                 \* whether its request has been answered with success
    file,        \* state.rs: the canvas file at AppState.file_path
    canvas,      \* state.rs: AppState.canvas
    bpc          \* position inside init_app_state

vars == <<db, disk, history, clock, pc, req, ts, rpc, scanning, scanRow,
          scanPixels, lastResp, nreq, durable, appended, scanGrids,
          horizon, client, lastWrite, file, canvas, bpc>>

\* what state.rs keeps: untouched by the handlers of handlers.rs
boot == <<file, canvas, bpc>>

----------------------------------------------------------------------------
(* Pure helpers *)

DigitChar == <<"0", "1", "2", "3", "4", "5", "6", "7", "8", "9">>

\* Display of a u32, as format!("{}") prints it
RECURSIVE u32_to_string(_)
u32_to_string(n) ==
    IF n < 10 THEN <<DigitChar[n + 1]>>
    ELSE u32_to_string(n \div 10) \o <<DigitChar[(n % 10) + 1]>>

make_key(x, y) == u32_to_string(x) \o <<":">> \o u32_to_string(y)

\* String::as_bytes and String::from_utf8(..).unwrap_or(default)
as_bytes(color) == <<"utf8", color>>
from_utf8_or(ivec, default) == IF ivec[1] = "utf8" THEN ivec[2] ELSE default

EmptyTree == [k \in {} |-> as_bytes(DEFAULT_COLOR)]

\* db.insert(key, value) on the tree
tree_insert(tree, key, value) == (key :> value) @@ tree

\* faulty variant: a missing key leaves the cell without a colour
read_pixel_no_default(tree, x, y) ==
    LET key == make_key(x, y)
    IN IF key \in DOMAIN tree THEN from_utf8_or(tree[key], DEFAULT_COLOR)
       ELSE ""

\* handlers.rs:80-89, one cell of make_canvas_response.  The Err arm of
\* db.get yields DEFAULT_COLOR exactly as a missing key does.
read_pixel(tree, x, y) ==
    LET key == make_key(x, y)
    IN IF key \in DOMAIN tree THEN from_utf8_or(tree[key], DEFAULT_COLOR)
       ELSE DEFAULT_COLOR

\* make_canvas_response run with no other task stepping in between
make_canvas_response(tree) ==
    [width |-> CANVAS_WIDTH,
     height |-> CANVAS_HEIGHT,
     pixels |-> [r \in 1..CANVAS_HEIGHT |->
                   [c \in 1..CANVAS_WIDTH |-> read_pixel(tree, c - 1, r - 1)]]]

\* faulty variant: `>` for `>=`, the first cell past each edge is accepted
out_of_bounds_strict(x, y) == x > CANVAS_WIDTH \/ y > CANVAS_HEIGHT

\* the bounds test of apply_pixel_update
out_of_bounds(x, y) == x >= CANVAS_WIDTH \/ y >= CANVAS_HEIGHT

\* faulty variant: the deque is pruned one entry too late
history_push_late_evict(h, update) ==
    LET pushed == Append(h, update)
    IN IF Len(pushed) > HISTORY_LIMIT + 1 THEN Tail(pushed) ELSE pushed

\* faulty variant: pop_back for pop_front, the newest entry is dropped
history_push_pop_back(h, update) ==
    LET pushed == Append(h, update)
    IN IF Len(pushed) > HISTORY_LIMIT
       THEN SubSeq(pushed, 1, Len(pushed) - 1) ELSE pushed

\* push_back, then pop_front when the length exceeds the limit
history_push(h, update) ==
    LET pushed == Append(h, update)
    IN IF Len(pushed) > HISTORY_LIMIT THEN Tail(pushed) ELSE pushed

\* faulty variant: `>=` for `>`, the entry at the cursor is returned again
RECURSIVE collect_since_inclusive(_, _, _, _)
collect_since_inclusive(h, since, lo, hi) ==
    IF lo > hi THEN <<>>
    ELSE IF lo = hi
         THEN IF h[lo].timestamp >= since THEN <<h[lo]>> ELSE <<>>
         ELSE LET mid == (lo + hi) \div 2
              IN collect_since_inclusive(h, since, lo, mid)
                     \o collect_since_inclusive(h, since, mid + 1, hi)

\* faulty variant: the timestamp test is missing, every entry is returned
collect_since_unfiltered(h, since, lo, hi) == SubSeq(h, lo, hi)

\* the loop `for item in history.iter()` of fetch_updates_since over the items
\* lo..hi, front to back; the range is halved so that the evaluation stays shallow
RECURSIVE collect_since(_, _, _, _)
collect_since(h, since, lo, hi) ==
    IF lo > hi THEN <<>>
    ELSE IF lo = hi
         THEN IF h[lo].timestamp > since THEN <<h[lo]>> ELSE <<>>
         ELSE LET mid == (lo + hi) \div 2
              IN collect_since(h, since, lo, mid)
                     \o collect_since(h, since, mid + 1, hi)

\* faulty variant: the buffer_limit_reached test is missing
fetch_updates_since_any_length(h, since) ==
    IF Len(h) > 0
    THEN IF since < h[1].timestamp
         THEN [updates |-> <<>>, reset_required |-> TRUE]
         ELSE [updates |-> collect_since(h, since, 1, Len(h)),
               reset_required |-> FALSE]
    ELSE [updates |-> <<>>, reset_required |-> FALSE]

\* faulty variant: `> 50` for `>= 50`, a full buffer is not seen as full
fetch_updates_since_never_full(h, since) ==
    IF Len(h) > 0
    THEN IF Len(h) > HISTORY_LIMIT /\ since < h[1].timestamp
         THEN [updates |-> <<>>, reset_required |-> TRUE]
         ELSE [updates |-> collect_since(h, since, 1, Len(h)),
               reset_required |-> FALSE]
    ELSE [updates |-> <<>>, reset_required |-> FALSE]

\* faulty variant: `<=` for `<`, the boundary cursor is sent to a resync
fetch_updates_since_boundary_resets(h, since) ==
    IF Len(h) > 0
    THEN IF Len(h) >= HISTORY_LIMIT /\ since <= h[1].timestamp
         THEN [updates |-> <<>>, reset_required |-> TRUE]
         ELSE [updates |-> collect_since(h, since, 1, Len(h)),
               reset_required |-> FALSE]
    ELSE [updates |-> <<>>, reset_required |-> FALSE]

fetch_updates_since(h, since) ==
    IF Len(h) > 0
    THEN LET first == h[1]
             buffer_limit_reached == Len(h) >= HISTORY_LIMIT
         IN IF buffer_limit_reached /\ since < first.timestamp
            THEN [updates |-> <<>>, reset_required |-> TRUE]
            ELSE [updates |-> collect_since(h, since, 1, Len(h)),
                  reset_required |-> FALSE]
    ELSE [updates |-> <<>>, reset_required |-> FALSE]

----------------------------------------------------------------------------
(* Responses *)

PixelOk == [kind |-> "pixel", status |-> 200, success |-> TRUE, error |-> "none"]
\* faulty variant: the error string is dropped from the failure response
PixelErrUnnamed(msg) ==
    [kind |-> "pixel", status |-> 400, success |-> FALSE, error |-> "none"]

PixelErr(msg) == [kind |-> "pixel", status |-> 400, success |-> FALSE, error |-> msg]
ResetOk == [kind |-> "reset", status |-> 200, success |-> TRUE,
            message |-> "Canvas reset successfully"]
ResetErr(msg) == [kind |-> "reset", status |-> 500, success |-> FALSE, message |-> msg]
NoResp == [kind |-> "none"]
NoReq == [x |-> 0, y |-> 0, color |-> DEFAULT_COLOR]

\* handlers in progress
InFlight ==
    Cardinality({p \in Procs : pc[p] # "idle"})
    + (IF scanning THEN 1 ELSE 0) + (IF rpc # "idle" THEN 1 ELSE 0)

\* a request is accepted when a worker is free and the request budget allows
Accept ==
    /\ nreq < MaxRequests
    /\ InFlight < Cardinality(Procs)
    /\ nreq' = nreq + 1

FirstFree(p) ==
    \E i \in 1..Len(ProcOrder) :
        /\ ProcOrder[i] = p
        /\ pc[p] = "idle"
        /\ \A j \in 1..(i - 1) : pc[ProcOrder[j]] # "idle"

----------------------------------------------------------------------------
(* Writes a restart must keep *)

Cells == (0..(CANVAS_WIDTH - 1)) \X (0..(CANVAS_HEIGHT - 1))

NoWrite == [who |-> "none", color |-> "none", acked |-> FALSE]
\* every cell is followed, none has been written
NoWrites == [cell \in Cells |-> NoWrite]
\* no cell is followed
NotFollowed == [cell \in {} |-> NoWrite]

\* db.insert by handler p has returned Ok
Written(w, p, x, y, color) ==
    IF <<x, y>> \in DOMAIN w
    THEN [w EXCEPT ![<<x, y>>] = [who |-> p, color |-> color, acked |-> FALSE]]
    ELSE w

\* db.clear has returned Ok
Cleared(w) == [cell \in DOMAIN w |-> NoWrite]

\* update_pixel_handler p answers success: its insert is acknowledged
\* unless the cell has been inserted again or cleared since
Acknowledged(w, p, x, y) ==
    IF <<x, y>> \in DOMAIN w /\ w[<<x, y>>].who = p
    THEN [w EXCEPT ![<<x, y>>].acked = TRUE]
    ELSE w

----------------------------------------------------------------------------
(* state.rs: the canvas file *)

\* Path::new(path).exists() is false
NotFound == [found |-> FALSE]
\* a file whose contents serde_json::from_str rejects
Unparsable == [parsable |-> FALSE]
\* init_app_state has not returned
NoCanvas == [returned |-> FALSE]

create_blank_canvas(width, height) ==
    [width |-> width,
     height |-> height,
     pixels |-> [r \in 1..height |-> [c \in 1..width |-> "#000000"]]]

\* files holding the JSON of a CanvasState: the canvas of the build, narrower
\* ones, and ones up to a row taller
CanvasFiles ==
    UNION {[width : {w}, height : {h},
            pixels : [1..h -> [1..w -> Colors]]] :
           w \in 1..CANVAS_WIDTH, h \in 1..(CANVAS_HEIGHT + 1)}

\* the server is up: init_app_state has run on a fresh path
Booted ==
    /\ bpc = "ready"
    /\ canvas = create_blank_canvas(CANVAS_WIDTH, CANVAS_HEIGHT)
    /\ file = create_blank_canvas(CANVAS_WIDTH, CANVAS_HEIGHT)

----------------------------------------------------------------------------
(* Initial states *)

Idle ==
    /\ pc = [p \in Procs |-> "idle"]
    /\ req = [p \in Procs |-> NoReq]
    /\ ts = [p \in Procs |-> 0]
    /\ durable = [p \in Procs |-> FALSE]
    /\ rpc = "idle"
    /\ scanning = FALSE
    /\ scanRow = <<>>
    /\ scanPixels = <<>>
    /\ lastResp = NoResp
    /\ nreq = 0
    /\ scanGrids = {}

\* no client is followed; the run ends with millisecond MaxClock
NoClient == [pc |-> "none", cursor |-> 0, grid |-> <<>>]

\* neither a client nor a cell is followed
Unobserved ==
    /\ client = NoClient
    /\ horizon = MaxClock
    /\ lastWrite = NotFollowed

\* State right after init_app_state on a fresh path: empty tree, empty history.
Init ==
    /\ db = EmptyTree
    /\ disk = EmptyTree
    /\ history = <<>>
    /\ appended = <<>>
    /\ clock = 1
    /\ Idle
    /\ Unobserved
    /\ Booted

(***************************************************************************)
(* The server after a burst: n POST /pixel requests served one after the   *)
(* other, each painting cell (0, 0); the first is logged in millisecond 1, *)
(* the others in millisecond 2.                                            *)
(***************************************************************************)
BurstColor == "#FF0000"

BurstEvent(i) == [x |-> 0, y |-> 0, color |-> BurstColor,
                  timestamp |-> IF i = 1 THEN 1 ELSE 2]

\* n pushes onto the empty deque: no pop_front happens while n is at most
\* the limit, so the deque holds the n events in push order
BurstHistory(n) == [i \in 1..n |-> BurstEvent(i)]

\* every request of the burst inserts the same key
BurstTree(n) ==
    IF n = 0 THEN EmptyTree
    ELSE tree_insert(EmptyTree, make_key(BurstEvent(n).x, BurstEvent(n).y),
                     as_bytes(BurstEvent(n).color))

\* burst lengths: none, one short of the history limit, exactly the limit
BurstLens == {0, HISTORY_LIMIT - 1, HISTORY_LIMIT}

InitWarm ==
    /\ \E n \in BurstLens :
          /\ history = BurstHistory(n)
          /\ appended = BurstHistory(n)
          /\ db = BurstTree(n)
          /\ disk = BurstTree(n)
          /\ clock = IF n = 0 THEN 1 ELSE BurstEvent(n).timestamp
    /\ Idle
    /\ Unobserved
    /\ Booted

(***************************************************************************)
(* The server after two POST /pixel requests served one after the other:   *)
(* the two opposite corners of the canvas are painted, in milliseconds 1   *)
(* and 2.                                                                  *)
(***************************************************************************)
PaintedEvents ==
    <<[x |-> 0, y |-> 0, color |-> BurstColor, timestamp |-> 1],
      [x |-> CANVAS_WIDTH - 1, y |-> CANVAS_HEIGHT - 1, color |-> BurstColor,
       timestamp |-> 2]>>

PaintedTree ==
    tree_insert(tree_insert(EmptyTree,
                            make_key(PaintedEvents[1].x, PaintedEvents[1].y),
                            as_bytes(PaintedEvents[1].color)),
                make_key(PaintedEvents[2].x, PaintedEvents[2].y),
                as_bytes(PaintedEvents[2].color))

InitPainted ==
    /\ db = PaintedTree
    /\ disk = PaintedTree
    /\ history = history_push(history_push(<<>>, PaintedEvents[1]),
                              PaintedEvents[2])
    /\ appended = PaintedEvents
    /\ clock = PaintedEvents[2].timestamp
    /\ Idle
    /\ Unobserved
    /\ Booted

(***************************************************************************)
(* The server after two overlapping POST /pixel requests and 48 more served *)
(* one after the other: the first two read the clock in milliseconds 1 and  *)
(* 2 and pushed in the opposite order (the request that read 2 took the     *)
(* history lock first); the others were logged in millisecond 2.  The       *)
(* request pushed first painted the far corner, the others cell (0, 0).     *)
(***************************************************************************)
RacedEvent(i) ==
    [x |-> IF i = 1 THEN CANVAS_WIDTH - 1 ELSE 0,
     y |-> IF i = 1 THEN CANVAS_HEIGHT - 1 ELSE 0,
     color |-> BurstColor,
     timestamp |-> IF i = 2 THEN 1 ELSE 2]

\* HISTORY_LIMIT pushes onto the empty deque: nothing is popped
RacedHistory == [i \in 1..HISTORY_LIMIT |-> RacedEvent(i)]

RacedTree ==
    tree_insert(tree_insert(EmptyTree,
                            make_key(RacedEvent(1).x, RacedEvent(1).y),
                            as_bytes(RacedEvent(1).color)),
                make_key(RacedEvent(2).x, RacedEvent(2).y),
                as_bytes(RacedEvent(2).color))

InitRaced ==
    /\ db = RacedTree
    /\ disk = RacedTree
    /\ history = RacedHistory
    /\ appended = RacedHistory
    /\ clock = 2
    /\ Idle
    /\ Unobserved
    /\ Booted

\* the grids seen since the scan in progress began, once the tree has become
\* `tree`
Observed(tree) ==
    IF scanning THEN scanGrids \cup {make_canvas_response(tree).pixels}
    ELSE scanGrids

----------------------------------------------------------------------------
(* POST /pixel: update_pixel_handler *)

\* the handler returns: its locals are dropped
Return(p) ==
    /\ pc' = [pc EXCEPT ![p] = "idle"]
    /\ req' = [req EXCEPT ![p] = NoReq]
    /\ ts' = [ts EXCEPT ![p] = 0]
    /\ durable' = [durable EXCEPT ![p] = FALSE]

\* The request arrives and apply_pixel_update tests the bounds.
UpdatePixelBegin(p, x, y, color) ==
    /\ FirstFree(p)
    /\ Accept
    /\ IF out_of_bounds(x, y)
       THEN /\ lastResp' = PixelErr("out_of_bounds")
            /\ UNCHANGED <<pc, req>>
       ELSE /\ pc' = [pc EXCEPT ![p] = "insert"]
            /\ req' = [req EXCEPT ![p] = [x |-> x, y |-> y, color |-> color]]
            /\ lastResp' = lastResp
    /\ UNCHANGED <<db, disk, history, clock, ts, rpc, scanning, scanRow,
                   scanPixels, durable, appended, scanGrids,
                   horizon, client, lastWrite, boot>>

\* faulty variant: the key is built from (y, x)
DbInsertSwappedKey(p) ==
    /\ pc[p] = "insert"
    /\ db' = tree_insert(db, make_key(req[p].y, req[p].x), as_bytes(req[p].color))
    /\ pc' = [pc EXCEPT ![p] = "flush"]
    /\ UNCHANGED <<disk, history, clock, req, ts, rpc, scanning, scanRow,
                   scanPixels, lastResp, nreq, durable, appended,
                   horizon, client, boot>>
    /\ scanGrids' = Observed(db')
    /\ lastWrite' = IF pc'[p] = "flush"
                    THEN Written(lastWrite, p, req[p].x, req[p].y, req[p].color)
                    ELSE lastWrite

\* db.insert(&key, color.as_bytes()), which may return an error
DbInsert(p) ==
    /\ pc[p] = "insert"
    /\ \E ok \in BOOLEAN :
         IF ok
         THEN /\ db' = tree_insert(db, make_key(req[p].x, req[p].y),
                                   as_bytes(req[p].color))
              /\ pc' = [pc EXCEPT ![p] = "flush"]
              /\ UNCHANGED <<lastResp, req, ts, durable>>
         ELSE /\ lastResp' = PixelErr("db_write_error")
              /\ Return(p)
              /\ db' = db
    /\ UNCHANGED <<disk, history, clock, rpc, scanning, scanRow, scanPixels,
                   nreq, appended, horizon, client, boot>>
    /\ scanGrids' = Observed(db')
    /\ lastWrite' = IF pc'[p] = "flush"
                    THEN Written(lastWrite, p, req[p].x, req[p].y, req[p].color)
                    ELSE lastWrite

\* faulty variant: the result of db.flush() is dropped, the handler goes on
DbFlushErrorIgnored(p) ==
    /\ pc[p] = "flush"
    /\ \E ok \in BOOLEAN :
         /\ disk' = IF ok THEN db ELSE disk
         /\ durable' = [durable EXCEPT ![p] = ok]
    /\ pc' = [pc EXCEPT ![p] = "log"]
    /\ UNCHANGED <<db, history, clock, req, ts, rpc, scanning, scanRow,
                   scanPixels, lastResp, nreq, appended, scanGrids,
                   horizon, client, lastWrite, boot>>

\* db.flush(), which may return an error
DbFlush(p) ==
    /\ pc[p] = "flush"
    /\ \E ok \in BOOLEAN :
         IF ok
         THEN /\ disk' = db
              /\ durable' = [durable EXCEPT ![p] = TRUE]
              /\ pc' = [pc EXCEPT ![p] = "log"]
              /\ UNCHANGED <<lastResp, req, ts>>
         ELSE /\ lastResp' = PixelErr("db_flush_error")
              /\ Return(p)
              /\ disk' = disk
    /\ UNCHANGED <<db, history, clock, rpc, scanning, scanRow, scanPixels,
                   nreq, appended, scanGrids, horizon, client, lastWrite, boot>>

\* log_pixel_update: SystemTime::now() is read before the lock is taken.
\* The clock is observed only here: it shows the time of the previous reading
\* or a later one, up to the end of the observed run.
LogReadClock(p) ==
    /\ pc[p] = "log"
    /\ \E now \in clock..horizon :
         /\ clock' = now
         /\ ts' = [ts EXCEPT ![p] = now]
    /\ pc' = [pc EXCEPT ![p] = "append"]
    /\ UNCHANGED <<db, disk, history, req, rpc, scanning, scanRow,
                   scanPixels, lastResp, nreq, durable, appended, scanGrids,
                   horizon, client, lastWrite, boot>>

\* log_pixel_update under history.write(), then the handler's Ok response
LogAppend(p) ==
    /\ pc[p] = "append"
    /\ LET update == [x |-> req[p].x, y |-> req[p].y, color |-> req[p].color,
                      timestamp |-> ts[p]]
       IN /\ history' = history_push(history, update)
          /\ appended' = Append(appended, update)
    /\ lastResp' = PixelOk
    /\ Return(p)
    /\ UNCHANGED <<db, disk, clock, rpc, scanning, scanRow, scanPixels, nreq,
                   scanGrids, horizon, client, boot>>
    /\ lastWrite' = Acknowledged(lastWrite, p, req[p].x, req[p].y)

----------------------------------------------------------------------------
(* GET /canvas: get_canvas_handler *)

\* the handler is entered: make_canvas_response starts with no row read
ServeCanvasBegin ==
    /\ ~scanning
    /\ Accept
    /\ scanning' = TRUE
    /\ scanRow' = <<>>
    /\ scanPixels' = <<>>
    /\ UNCHANGED <<db, disk, history, clock, pc, req, ts, rpc, lastResp,
                   durable, appended, horizon, lastWrite, boot>>
    /\ scanGrids' = {make_canvas_response(db).pixels}

\* GET /canvas sent by anyone but the client that is followed
GetCanvasBegin == ServeCanvasBegin /\ UNCHANGED client

\* one iteration of the inner loop: db.get of cell (x, y), row.push, and
\* pixels.push(row) once the row is complete
GetCanvasRead ==
    /\ scanning
    /\ Len(scanPixels) < CANVAS_HEIGHT
    /\ LET y == Len(scanPixels)
           x == Len(scanRow)
           row == Append(scanRow, read_pixel(db, x, y))
       IN IF Len(row) = CANVAS_WIDTH
          THEN /\ scanPixels' = Append(scanPixels, row)
               /\ scanRow' = <<>>
          ELSE /\ scanRow' = row
               /\ scanPixels' = scanPixels
    /\ UNCHANGED <<db, disk, history, clock, pc, req, ts, rpc, scanning,
                   lastResp, nreq, durable, appended, scanGrids,
                   horizon, client, lastWrite, boot>>

\* the CanvasResponse is built and returned
ServeCanvasEnd ==
    /\ scanning
    /\ Len(scanPixels) = CANVAS_HEIGHT
    /\ lastResp' = [kind |-> "canvas", status |-> 200, width |-> CANVAS_WIDTH,
                    height |-> CANVAS_HEIGHT, pixels |-> scanPixels]
    /\ scanning' = FALSE
    /\ scanPixels' = <<>>
    /\ UNCHANGED <<db, disk, history, clock, pc, req, ts, rpc, scanRow, nreq,
                   durable, appended, horizon, lastWrite, boot>>
    /\ scanGrids' = {}

GetCanvasEnd == ServeCanvasEnd /\ UNCHANGED client

----------------------------------------------------------------------------
(* POST /reset: reset_canvas_handler *)

ResetBegin ==
    /\ rpc = "idle"
    /\ Accept
    /\ rpc' = "clear"
    /\ UNCHANGED <<db, disk, history, clock, pc, req, ts, scanning, scanRow,
                   scanPixels, lastResp, durable, appended, scanGrids,
                   horizon, client, lastWrite, boot>>

\* faulty variant: only the key of cell (0, 0) is removed
ResetClearFirstKey ==
    /\ rpc = "clear"
    /\ db' = [k \in DOMAIN db \ {make_key(0, 0)} |-> db[k]]
    /\ rpc' = "flush"
    /\ scanGrids' = Observed(db')
    /\ UNCHANGED <<disk, history, clock, pc, req, ts, scanning, scanRow,
                   scanPixels, lastResp, nreq, durable, appended,
                   horizon, client, boot>>
    /\ lastWrite' = IF rpc' = "flush" THEN Cleared(lastWrite) ELSE lastWrite

\* db.clear(), which may return an error
ResetClear ==
    /\ rpc = "clear"
    /\ \E ok \in BOOLEAN :
         IF ok
         THEN /\ db' = EmptyTree
              /\ rpc' = "flush"
              /\ lastResp' = lastResp
         ELSE /\ lastResp' = ResetErr("db_clear_error")
              /\ rpc' = "idle"
              /\ db' = db
    /\ UNCHANGED <<disk, history, clock, pc, req, ts, scanning, scanRow,
                   scanPixels, nreq, durable, appended, horizon, client, boot>>
    /\ scanGrids' = Observed(db')
    /\ lastWrite' = IF rpc' = "flush" THEN Cleared(lastWrite) ELSE lastWrite

\* faulty variant: a reset that succeeds also empties the history
ResetFlushClearsHistory ==
    /\ rpc = "flush"
    /\ \E ok \in BOOLEAN :
         IF ok
         THEN /\ disk' = db
              /\ lastResp' = ResetOk
              /\ history' = <<>>
         ELSE /\ disk' = disk
              /\ lastResp' = ResetErr("db_flush_error")
              /\ history' = history
    /\ rpc' = "idle"
    /\ UNCHANGED <<db, clock, pc, req, ts, scanning, scanRow,
                   scanPixels, nreq, durable, appended, scanGrids,
                   horizon, client, lastWrite, boot>>

\* db.flush(), which may return an error
ResetFlush ==
    /\ rpc = "flush"
    /\ \E ok \in BOOLEAN :
         IF ok
         THEN /\ disk' = db
              /\ lastResp' = ResetOk
         ELSE /\ disk' = disk
              /\ lastResp' = ResetErr("db_flush_error")
    /\ rpc' = "idle"
    /\ UNCHANGED <<db, history, clock, pc, req, ts, scanning, scanRow,
                   scanPixels, nreq, durable, appended, scanGrids,
                   horizon, client, lastWrite, boot>>

----------------------------------------------------------------------------
(* GET /updates: get_updates_handler, one read section of the history lock *)

\* faulty variant: the events handed out are taken off the history
ServeUpdatesDraining(since) ==
    /\ Accept
    /\ LET r == fetch_updates_since(history, since)
       IN /\ lastResp' = [kind |-> "updates", status |-> 200, since |-> since,
                          updates |-> r.updates,
                          reset_required |-> r.reset_required]
          /\ history' = SubSeq(history, 1, Len(history) - Len(r.updates))
    /\ UNCHANGED <<db, disk, clock, pc, req, ts, rpc, scanning,
                   scanRow, scanPixels, durable, appended, scanGrids,
                   horizon, lastWrite, boot>>

ServeUpdates(since) ==
    /\ Accept
    /\ LET r == fetch_updates_since(history, since)
       IN lastResp' = [kind |-> "updates", status |-> 200, since |-> since,
                       updates |-> r.updates,
                       reset_required |-> r.reset_required]
    /\ UNCHANGED <<db, disk, history, clock, pc, req, ts, rpc, scanning,
                   scanRow, scanPixels, durable, appended, scanGrids,
                   horizon, lastWrite, boot>>

\* GET /updates sent by anyone but the client that is followed
GetUpdates(since) == ServeUpdates(since) /\ UNCHANGED client

----------------------------------------------------------------------------

Next ==
    \/ \E p \in Procs, cell \in CellInputs, color \in Colors :
         UpdatePixelBegin(p, cell[1], cell[2], color)
    \/ \E p \in Procs : DbInsert(p)
    \/ \E p \in Procs : DbFlush(p)
    \/ \E p \in Procs : LogReadClock(p)
    \/ \E p \in Procs : LogAppend(p)
    \/ GetCanvasBegin
    \/ GetCanvasRead
    \/ GetCanvasEnd
    \/ ResetBegin
    \/ ResetClear
    \/ ResetFlush
    \/ \E since \in SinceInputs : GetUpdates(since)

Spec == Init /\ [][Next]_vars

----------------------------------------------------------------------------
(* Restart of the server process *)

\* the tree sled recovers when it is opened again: each key either as the
\* last flush left it or as the tree held it when the process stopped
Recovered(kept) ==
    LET dom == {k \in DOMAIN db \cup DOMAIN disk :
                  IF k \in kept THEN k \in DOMAIN db ELSE k \in DOMAIN disk}
    IN [k \in dom |-> IF k \in kept THEN db[k] ELSE disk[k]]

\* The process stops at any point, every handler in progress with it, and is
\* started again: the tree is opened from the store, the history is new.
Restart ==
    /\ \E kept \in SUBSET (DOMAIN db \cup DOMAIN disk) :
         /\ db' = Recovered(kept)
         /\ disk' = Recovered(kept)
    /\ history' = <<>>
    /\ appended' = <<>>
    /\ pc' = [p \in Procs |-> "idle"]
    /\ req' = [p \in Procs |-> NoReq]
    /\ ts' = [p \in Procs |-> 0]
    /\ durable' = [p \in Procs |-> FALSE]
    /\ rpc' = "idle"
    /\ scanning' = FALSE
    /\ scanRow' = <<>>
    /\ scanPixels' = <<>>
    /\ scanGrids' = {}
    /\ lastResp' = NoResp
    /\ UNCHANGED <<clock, nreq, horizon, client, lastWrite, boot>>

NextRestart ==
    \/ Next
    \/ Restart

\* the fresh server, every cell of the canvas followed
InitRestart ==
    /\ db = EmptyTree
    /\ disk = EmptyTree
    /\ history = <<>>
    /\ appended = <<>>
    /\ clock = 1
    /\ Idle
    /\ client = NoClient
    /\ horizon = MaxClock
    /\ lastWrite = NoWrites
    /\ Booted

\* the server across restarts
SpecRestart == InitRestart /\ [][NextRestart]_vars

----------------------------------------------------------------------------
(* state.rs: init_app_state *)

\* what handlers.rs keeps: untouched by init_app_state
served == <<db, disk, history, clock, pc, req, ts, rpc, scanning, scanRow,
            scanPixels, lastResp, nreq, durable, appended, scanGrids,
            horizon, client, lastWrite>>

\* load_canvas_from_file: `if Path::new(path).exists()`
LoadExists ==
    /\ bpc = "start"
    /\ bpc' = IF file # NotFound THEN "read" ELSE "create"
    /\ UNCHANGED <<file, canvas, served>>

\* the `if` arm: read_to_string and from_str, each of which may panic
LoadRead ==
    /\ bpc = "read"
    /\ \E read_ok \in BOOLEAN :
         IF read_ok /\ file # Unparsable
         THEN /\ canvas' = file
              /\ bpc' = "ready"
         ELSE /\ canvas' = canvas
              /\ bpc' = "panicked"
    /\ UNCHANGED <<file, served>>

\* faulty variant: the blank canvas is returned without being saved
LoadCreateUnsaved ==
    /\ bpc = "create"
    /\ canvas' = create_blank_canvas(CANVAS_WIDTH, CANVAS_HEIGHT)
    /\ bpc' = "ready"
    /\ UNCHANGED <<file, served>>

\* the `else` arm: create_blank_canvas, then save_canvas_to_file, whose
\* fs::write may panic and then leaves no file or a truncated one
LoadCreate ==
    /\ bpc = "create"
    /\ \E write_ok \in BOOLEAN :
         IF write_ok
         THEN /\ file' = create_blank_canvas(CANVAS_WIDTH, CANVAS_HEIGHT)
              /\ canvas' = create_blank_canvas(CANVAS_WIDTH, CANVAS_HEIGHT)
              /\ bpc' = "ready"
         ELSE /\ file' \in {NotFound, Unparsable}
              /\ canvas' = canvas
              /\ bpc' = "panicked"
    /\ UNCHANGED served

\* the process ends, by the panic or by being stopped, and is started again
Exit ==
    /\ bpc \in {"ready", "panicked"}
    /\ bpc' = "start"
    /\ canvas' = NoCanvas
    /\ UNCHANGED <<file, served>>

\* the process starts on a path that holds no file, a canvas or something else
InitBoot ==
    /\ db = EmptyTree
    /\ disk = EmptyTree
    /\ history = <<>>
    /\ appended = <<>>
    /\ clock = 1
    /\ Idle
    /\ Unobserved
    /\ bpc = "start"
    /\ canvas = NoCanvas
    /\ file \in CanvasFiles \cup {NotFound, Unparsable}

NextBoot ==
    \/ LoadExists
    \/ LoadRead
    \/ LoadCreate
    \/ Exit

SpecBoot == InitBoot /\ [][NextBoot]_vars

\* the same server, observed from the end of a burst of writes
SpecWarm == InitWarm /\ [][Next]_vars

\* the same server, observed once both corners have been painted
SpecPainted == InitPainted /\ [][Next]_vars

\* the server with a full journal whose two oldest entries are out of order
SpecRaced == InitRaced /\ [][Next]_vars

----------------------------------------------------------------------------
(* A polling client, following the client policy of the incremental-poll   *)
(* contract: on reset_required it fetches the full snapshot and resets its *)
(* cursor; otherwise it applies the updates in order and advances its      *)
(* cursor to the latest timestamp seen.                                    *)

\* the updates applied to a grid in order: each cell ends with the color of
\* the last update that names it
ApplyUpdates(grid, updates) ==
    [r \in 1..CANVAS_HEIGHT |->
       [c \in 1..CANVAS_WIDTH |->
          LET hits == {i \in 1..Len(updates) :
                          updates[i].x = c - 1 /\ updates[i].y = r - 1}
          IN IF hits = {} THEN grid[r][c]
             ELSE updates[CHOOSE i \in hits : \A j \in hits : j <= i].color]]

\* the latest timestamp seen so far
LatestSeen(cursor, updates) ==
    LET seen == {cursor} \cup {updates[i].timestamp : i \in 1..Len(updates)}
    IN CHOOSE t \in seen : \A u \in seen : u <= t

\* the client's reaction to the answer of GET /updates
ClientOnUpdates(c, resp) ==
    IF resp.reset_required
    THEN [c EXCEPT !.pc = "resync"]
    ELSE [pc |-> "ready",
          cursor |-> LatestSeen(c.cursor, resp.updates),
          grid |-> ApplyUpdates(c.grid, resp.updates)]

\* the client polls with its cursor and reacts to the answer
ClientPoll ==
    /\ client.pc = "ready"
    /\ ServeUpdates(client.cursor)
    /\ client' = ClientOnUpdates(client, lastResp')

\* after reset_required: the client sends GET /canvas
ClientFetchBegin ==
    /\ client.pc = "resync"
    /\ ServeCanvasBegin
    /\ client' = [client EXCEPT !.pc = "fetching"]

\* the snapshot arrives: it becomes the local grid and the cursor is reset
ClientFetchEnd ==
    /\ client.pc = "fetching"
    /\ ServeCanvasEnd
    /\ client' = [pc |-> "ready", cursor |-> 0, grid |-> lastResp'.pixels]

(***************************************************************************)
(* The writes the client is observed with: one POST /pixel at a time, no   *)
(* insert or flush error, and every event logged in a later millisecond    *)
(* than the event before it.                                               *)
(***************************************************************************)
SoleUpdatePixelBegin(p, x, y, color) ==
    /\ \A q \in Procs : pc[q] = "idle"
    /\ UpdatePixelBegin(p, x, y, color)

DbInsertOk(p) == DbInsert(p) /\ pc'[p] = "flush"

DbFlushOk(p) == DbFlush(p) /\ pc'[p] = "log"

LogReadLaterClock(p) ==
    /\ LogReadClock(p)
    /\ appended # <<>> => ts'[p] > appended[Len(appended)].timestamp

(***************************************************************************)
(* The server after n POST /pixel requests served one after the other in   *)
(* the milliseconds 1..n: the first paints the far corner, the others the  *)
(* cell (0, 0).  The client took its snapshot before the first of them     *)
(* ("start"), or right now with nothing seen yet ("join"), or has followed *)
(* every one of them ("caught_up").                                        *)
(***************************************************************************)
ClientEvent(i) ==
    [x |-> IF i = 1 THEN CANVAS_WIDTH - 1 ELSE 0,
     y |-> IF i = 1 THEN CANVAS_HEIGHT - 1 ELSE 0,
     color |-> BurstColor, timestamp |-> i]

ClientAppended(n) == [i \in 1..n |-> ClientEvent(i)]

\* n pushes onto the empty deque: the last HISTORY_LIMIT of them remain
ClientHistory(n) ==
    LET kept == IF n < HISTORY_LIMIT THEN n ELSE HISTORY_LIMIT
    IN [i \in 1..kept |-> ClientEvent(n - kept + i)]

ClientTree(n) ==
    LET first == IF n = 0 THEN EmptyTree
                 ELSE tree_insert(EmptyTree,
                                  make_key(ClientEvent(1).x, ClientEvent(1).y),
                                  as_bytes(ClientEvent(1).color))
    IN IF n < 2 THEN first
       ELSE tree_insert(first, make_key(ClientEvent(n).x, ClientEvent(n).y),
                        as_bytes(ClientEvent(n).color))

ClientBurstLens == {0, HISTORY_LIMIT - 1, HISTORY_LIMIT + 1}

ClientSyncs == {"start", "join", "caught_up"}

InitClient ==
    /\ \E n \in ClientBurstLens, sync \in ClientSyncs :
          /\ history = ClientHistory(n)
          /\ appended = ClientAppended(n)
          /\ db = ClientTree(n)
          /\ disk = ClientTree(n)
          /\ clock = IF n = 0 THEN 1 ELSE n
          /\ horizon = (IF n = 0 THEN 1 ELSE n) + MaxClock
          /\ client =
               [pc |-> "ready",
                cursor |-> IF sync = "caught_up" THEN n ELSE 0,
                grid |-> IF sync = "start"
                         THEN make_canvas_response(EmptyTree).pixels
                         ELSE make_canvas_response(ClientTree(n)).pixels]
    /\ lastWrite = NotFollowed
    /\ Idle
    /\ Booted

NextClient ==
    \/ \E p \in Procs, cell \in CellInputs, color \in Colors :
         SoleUpdatePixelBegin(p, cell[1], cell[2], color)
    \/ \E p \in Procs : DbInsertOk(p)
    \/ \E p \in Procs : DbFlushOk(p)
    \/ \E p \in Procs : LogReadLaterClock(p)
    \/ \E p \in Procs : LogAppend(p)
    \/ ClientPoll
    \/ ClientFetchBegin
    \/ GetCanvasRead
    \/ ClientFetchEnd

\* the server and one client, under sequential writes that do not fail
SpecClient == InitClient /\ [][NextClient]_vars

----------------------------------------------------------------------------
(* The history lock: std::sync::RwLock<VecDeque<PixelUpdate>>               *)
(*                                                                          *)
(* Taking the lock and running the section under it are separate steps, so  *)
(* that a handler can be seen waiting for the lock.  The lock is held by    *)
(* the handler that is inside log_pixel_update's `if let Ok(mut history)`,  *)
(* or by the poll that is inside fetch_updates_since; neither section can   *)
(* panic, so the lock is never poisoned.                                    *)

\* a handler holds the write guard
WriteLocked == \E p \in Procs : pc[p] = "locked"

\* the poll holds a read guard
ReadLocked == client.pc = "reading"

\* state.history.write() returns: no guard of either kind is out
LogLock(p) ==
    /\ pc[p] = "append"
    /\ ~WriteLocked
    /\ ~ReadLocked
    /\ pc' = [pc EXCEPT ![p] = "locked"]
    /\ UNCHANGED <<db, disk, history, clock, req, ts, rpc, scanning, scanRow,
                   scanPixels, lastResp, nreq, durable, appended, scanGrids,
                   horizon, client, lastWrite, boot>>

\* push_back and pop_front under the guard, which is dropped at the end of
\* the `if let`; then the handler's Ok response
LogPush(p) ==
    /\ pc[p] = "locked"
    /\ LET update == [x |-> req[p].x, y |-> req[p].y, color |-> req[p].color,
                      timestamp |-> ts[p]]
       IN /\ history' = history_push(history, update)
          /\ appended' = Append(appended, update)
    /\ lastResp' = PixelOk
    /\ Return(p)
    /\ UNCHANGED <<db, disk, clock, rpc, scanning, scanRow, scanPixels, nreq,
                   scanGrids, horizon, client, boot>>
    /\ lastWrite' = Acknowledged(lastWrite, p, req[p].x, req[p].y)

\* GET /updates?since= arrives, with a cursor from within the run:
\* get_updates_handler calls fetch_updates_since
PollBegin(since) ==
    /\ client.pc = "ready"
    /\ since <= horizon
    /\ nreq < MaxRequests
    /\ nreq' = nreq + 1
    /\ client' = [client EXCEPT !.pc = "waiting", !.cursor = since]
    /\ UNCHANGED <<db, disk, history, clock, pc, req, ts, rpc, scanning,
                   scanRow, scanPixels, lastResp, durable, appended,
                   scanGrids, horizon, lastWrite, boot>>

\* state.history.read() returns: no write guard is out
PollLock ==
    /\ client.pc = "waiting"
    /\ ~WriteLocked
    /\ client' = [client EXCEPT !.pc = "reading"]
    /\ UNCHANGED <<db, disk, history, clock, pc, req, ts, rpc, scanning,
                   scanRow, scanPixels, lastResp, nreq, durable, appended,
                   scanGrids, horizon, lastWrite, boot>>

\* faulty variant: the read guard is kept after the answer is built
PollReadKeepsGuard ==
    /\ client.pc = "reading"
    /\ LET r == fetch_updates_since(history, client.cursor)
       IN lastResp' = [kind |-> "updates", status |-> 200,
                       since |-> client.cursor, updates |-> r.updates,
                       reset_required |-> r.reset_required]
    /\ UNCHANGED <<db, disk, history, clock, pc, req, ts, rpc, scanning,
                   scanRow, scanPixels, nreq, durable, appended,
                   scanGrids, horizon, lastWrite, boot, client>>

\* the body of fetch_updates_since under the read guard, which is dropped
\* when the function returns; then the handler's response
PollRead ==
    /\ client.pc = "reading"
    /\ LET r == fetch_updates_since(history, client.cursor)
       IN lastResp' = [kind |-> "updates", status |-> 200,
                       since |-> client.cursor, updates |-> r.updates,
                       reset_required |-> r.reset_required]
    /\ client' = [client EXCEPT !.pc = "ready"]
    /\ UNCHANGED <<db, disk, history, clock, pc, req, ts, rpc, scanning,
                   scanRow, scanPixels, nreq, durable, appended,
                   scanGrids, horizon, lastWrite, boot>>

\* the fresh server, polled by requests that arrive one at a time; the run
\* is over within the millisecond in which it starts
InitLocks ==
    /\ db = EmptyTree
    /\ disk = EmptyTree
    /\ history = <<>>
    /\ appended = <<>>
    /\ clock = 1
    /\ Idle
    /\ client = [pc |-> "ready", cursor |-> 0, grid |-> <<>>]
    /\ horizon = 1
    /\ lastWrite = NotFollowed
    /\ Booted

NextLocks ==
    \/ \E p \in Procs, cell \in CellInputs, color \in Colors :
         UpdatePixelBegin(p, cell[1], cell[2], color)
    \/ \E p \in Procs : DbInsert(p)
    \/ \E p \in Procs : DbFlush(p)
    \/ \E p \in Procs : LogReadClock(p)
    \/ \E p \in Procs : LogLock(p)
    \/ \E p \in Procs : LogPush(p)
    \/ GetCanvasBegin
    \/ GetCanvasRead
    \/ GetCanvasEnd
    \/ ResetBegin
    \/ ResetClear
    \/ ResetFlush
    \/ \E since \in SinceInputs : PollBegin(since)
    \/ PollLock
    \/ PollRead

\* the runtime keeps polling every task that can run: a handler that can
\* take its next step takes it
FairLocks ==
    /\ \A p \in Procs :
         /\ WF_vars(DbInsert(p))
         /\ WF_vars(DbFlush(p))
         /\ WF_vars(LogReadClock(p))
         /\ WF_vars(LogLock(p))
         /\ WF_vars(LogPush(p))
    /\ WF_vars(GetCanvasRead)
    /\ WF_vars(GetCanvasEnd)
    /\ WF_vars(ResetClear)
    /\ WF_vars(ResetFlush)
    /\ WF_vars(PollLock)
    /\ WF_vars(PollRead)

\* the server with the history lock, under fair scheduling
SpecLocks == InitLocks /\ [][NextLocks]_vars /\ FairLocks

----------------------------------------------------------------------------
(* Properties *)

\* cursors a client may hold: any millisecond up to one past the clock's range
SinceRange == 0..(MaxClock + 1)

\* the entries of journal h later than since, in journal order
Newer(h, since) == SelectSeq(h, LAMBDA e : e.timestamp > since)

Requested(p) == [x |-> req[p].x, y |-> req[p].y, color |-> req[p].color,
                 timestamp |-> ts[p]]

\* C1: the db.insert of an in-bounds SetCell(x, y, c) changes the snapshot
\* (make_canvas_response) at cell (x, y) to c and at no other cell, and the
\* flush that completes the SetCell changes no cell of the snapshot.
C1_SetCellChangesExactlyOneCell ==
    [][\A p \in Procs :
         /\ (pc[p] = "insert" /\ pc'[p] = "flush") =>
              LET before == make_canvas_response(db).pixels
                  after == make_canvas_response(db').pixels
              IN /\ after[req[p].y + 1][req[p].x + 1] = req[p].color
                 /\ \A r \in 1..CANVAS_HEIGHT, c \in 1..CANVAS_WIDTH :
                      (r # req[p].y + 1 \/ c # req[p].x + 1)
                          => after[r][c] = before[r][c]
         /\ (pc[p] = "flush" /\ pc'[p] = "log") =>
              make_canvas_response(db') = make_canvas_response(db)
      ]_vars

\* a GET /canvas response that shows the one write served so far: the far
\* corner painted, the near corner still default
C1_Witness ==
    /\ lastResp.kind = "canvas"
    /\ Len(appended) = 1
    /\ lastResp.pixels[CANVAS_HEIGHT][CANVAS_WIDTH] = "#FF0000"
    /\ lastResp.pixels[1][1] = DEFAULT_COLOR

\* C2: a POST /pixel with x >= width or y >= height is answered at once with
\* the out_of_bounds error and changes neither the tree, nor the durable
\* state, nor the journal.
C2_OutOfBoundsRejected ==
    [][\A p \in Procs, cell \in CellInputs, color \in Colors :
         ((cell[1] >= CANVAS_WIDTH \/ cell[2] >= CANVAS_HEIGHT)
            /\ UpdatePixelBegin(p, cell[1], cell[2], color))
         => /\ lastResp' = PixelErr("out_of_bounds")
            /\ pc'[p] = "idle"
            /\ db' = db
            /\ disk' = disk
            /\ history' = history
            /\ appended' = appended
      ]_vars

\* an out-of-bounds request was refused after a write had painted a cell
C2_Witness ==
    /\ lastResp = PixelErr("out_of_bounds")
    /\ Len(history) = 1
    /\ db # EmptyTree

\* C3: every push onto the journal is made by a handler whose insert and
\* flush had both succeeded before the push, and pushes that handler's event;
\* a step in which a write fails (out of bounds, insert error, flush error)
\* leaves the journal as it was.
C3_JournalOnlyAfterCommit ==
    [][/\ (appended' # appended) =>
            \E p \in Procs :
                /\ pc[p] = "append"
                /\ durable[p]
                /\ appended' = Append(appended, Requested(p))
       /\ (/\ lastResp'.kind = "pixel"
           /\ ~lastResp'.success
           /\ (nreq' # nreq \/ \E p \in Procs : pc[p] # "idle" /\ pc'[p] = "idle"))
          => (history' = history /\ appended' = appended)
      ]_vars

\* one write is in the journal while a second, concurrent one has committed
\* and is about to be logged
C3_Witness ==
    /\ Len(appended) = 1
    /\ \E p \in Procs : pc[p] = "append" /\ durable[p]

\* C4: the journal never holds more than HISTORY_LIMIT (50) entries.
C4_JournalBounded == Len(history) <= HISTORY_LIMIT

\* more events were pushed than the journal can hold
C4_Witness ==
    /\ Len(appended) > HISTORY_LIMIT
    /\ Len(history) = HISTORY_LIMIT

\* C5: after n pushes the journal holds the last min(n, 50) pushed events in
\* push order.
C5_JournalIsLatestSuffix ==
    LET n == Len(appended)
        kept == IF n < HISTORY_LIMIT THEN n ELSE HISTORY_LIMIT
    IN history = SubSeq(appended, n - kept + 1, n)

\* 51 pushes: the first event (the only one of millisecond 1) is gone and the
\* newest event is at the back
C5_Witness ==
    /\ Len(appended) = HISTORY_LIMIT + 1
    /\ history[1] = appended[2]
    /\ history[1] # appended[1]
    /\ history[HISTORY_LIMIT] = appended[HISTORY_LIMIT + 1]
    /\ lastResp = PixelOk

\* C6: while the journal holds fewer than 50 entries, every cursor gets
\* reset_required = false and exactly the entries later than the cursor;
\* so does the response of every GET /updates served in such a state.
C6_ShortJournalNeverResets ==
    Len(history) < HISTORY_LIMIT =>
        /\ \A since \in SinceRange :
             LET r == fetch_updates_since(history, since)
             IN r.reset_required = FALSE /\ r.updates = Newer(history, since)
        /\ lastResp.kind = "updates" =>
             /\ lastResp.reset_required = FALSE
             /\ lastResp.updates = Newer(history, lastResp.since)

\* a poll of a 49-entry journal with a cursor older than its first entry
C6_Witness ==
    /\ lastResp.kind = "updates"
    /\ Len(history) = HISTORY_LIMIT - 1
    /\ lastResp.since < history[1].timestamp
    /\ Len(lastResp.updates) = HISTORY_LIMIT - 1

\* the empty journal answers every cursor with no events and no reset
C6_WitnessEmpty ==
    /\ lastResp.kind = "updates"
    /\ history = <<>>
    /\ lastResp.updates = <<>>

\* C7: with exactly 50 entries and a cursor older than the front entry the
\* answer is reset_required = true with no events.
C7_FullJournalStaleCursorResets ==
    (Len(history) = HISTORY_LIMIT) =>
        /\ \A since \in SinceRange :
             since < history[1].timestamp =>
                 LET r == fetch_updates_since(history, since)
                 IN r.reset_required = TRUE /\ r.updates = <<>>
        /\ (lastResp.kind = "updates" /\ lastResp.since < history[1].timestamp)
             => (lastResp.reset_required = TRUE /\ lastResp.updates = <<>>)

C7_Witness ==
    /\ lastResp.kind = "updates"
    /\ Len(history) = HISTORY_LIMIT
    /\ lastResp.since < history[1].timestamp
    /\ lastResp.reset_required

C9_AsClaimed ==
    (/\ lastResp.kind = "updates"
     /\ Len(history) = HISTORY_LIMIT
     /\ lastResp.since = history[1].timestamp)
    => /\ lastResp.reset_required = FALSE
       /\ \E i \in 1..Len(lastResp.updates) : lastResp.updates[i] = history[1]

\* C9 as the code has it: a poll of a full journal with the cursor equal to
\* the front entry's timestamp gets no reset, and the events are exactly the entries
\* strictly later than the cursor: the front entry is not among them.
C9_BoundaryCursorNoReset ==
    (Len(history) = HISTORY_LIMIT) =>
        /\ LET r == fetch_updates_since(history, history[1].timestamp)
           IN /\ r.reset_required = FALSE
              /\ r.updates = Newer(history, history[1].timestamp)
              /\ \A i \in 1..Len(r.updates) : r.updates[i] # history[1]
        /\ (lastResp.kind = "updates" /\ lastResp.since = history[1].timestamp)
             => /\ lastResp.reset_required = FALSE
                /\ \A i \in 1..Len(lastResp.updates) :
                     /\ lastResp.updates[i] # history[1]
                     /\ lastResp.updates[i].timestamp > lastResp.since

\* the boundary poll of a full journal, answered with the 49 later entries
C9_Witness ==
    /\ lastResp.kind = "updates"
    /\ Len(history) = HISTORY_LIMIT
    /\ lastResp.since = history[1].timestamp
    /\ ~lastResp.reset_required
    /\ Len(lastResp.updates) = HISTORY_LIMIT - 1

\* C10: no answer, for any journal and any cursor, holds an event whose
\* timestamp is at or before the cursor.
C10_NothingAtOrBeforeCursor ==
    /\ \A since \in SinceRange :
         LET r == fetch_updates_since(history, since)
         IN \A i \in 1..Len(r.updates) : r.updates[i].timestamp > since
    /\ lastResp.kind = "updates" =>
         \A i \in 1..Len(lastResp.updates) :
             lastResp.updates[i].timestamp > lastResp.since

\* a poll whose cursor equals the newest timestamp of a non-empty journal:
\* every entry is at or before the cursor and none is returned
C10_Witness ==
    /\ lastResp.kind = "updates"
    /\ history # <<>>
    /\ lastResp.since = history[Len(history)].timestamp
    /\ ~lastResp.reset_required
    /\ lastResp.updates = <<>>

\* C11: the timestamps of the journal entries are non-decreasing from the
\* front (oldest) to the back (newest), also when write requests overlap.
C11_TimestampsNonDecreasing ==
    \A i \in 1..(Len(history) - 1) :
        history[i].timestamp <= history[i + 1].timestamp

\* C12: the grid a GET /canvas returns is one of the grids the tree held at
\* some instant between the start and the end of make_canvas_response.
C12_SnapshotIsOneGrid ==
    [][(scanning /\ ~scanning') => lastResp'.pixels \in scanGrids]_vars

\* C13 as the specification words it: after every poll of the client (the
\* answer applied, or the snapshot fetched again on reset_required) the local
\* grid equals the snapshot of the server at that moment.
C13_AsClaimed ==
    [][((ClientPoll /\ client'.pc = "ready") \/ ClientFetchEnd)
       => client'.grid = make_canvas_response(db').pixels]_vars

\* C13 as the code has it: the same, for the polls answered while no write
\* request is in progress and, on reset_required, for a snapshot fetched
\* while the grid did not change.
C13_ClientConverges ==
    [][/\ (/\ ClientPoll
           /\ client'.pc = "ready"
           /\ \A p \in Procs : pc[p] = "idle")
          => client'.grid = make_canvas_response(db').pixels
       /\ (/\ ClientFetchEnd
           /\ \A p \in Procs : pc[p] = "idle"
           /\ scanGrids = {make_canvas_response(db).pixels})
          => client'.grid = make_canvas_response(db').pixels]_vars

\* the client, caught up with a full journal, has applied the event of one
\* more write
C13_Witness ==
    /\ client.pc = "ready"
    /\ Len(appended) > HISTORY_LIMIT + 1
    /\ client.cursor = appended[Len(appended)].timestamp
    /\ lastResp.kind = "updates"
    /\ Len(lastResp.updates) = 1
    /\ client.grid = make_canvas_response(db).pixels

AllDefault(pixels) ==
    \A r \in 1..CANVAS_HEIGHT, c \in 1..CANVAS_WIDTH :
        pixels[r][c] = DEFAULT_COLOR

\* C14: a reset whose db.clear succeeds leaves every cell at the default
\* color; the grid stays all-default until the next db.insert of a write; and
\* a GET /canvas that runs over an all-default grid returns the default color
\* in every one of its width x height cells.
C14_ResetSetsEveryCellDefault ==
    [][/\ (rpc = "clear" /\ rpc' = "flush")
            => AllDefault(make_canvas_response(db').pixels)
       /\ (/\ AllDefault(make_canvas_response(db).pixels)
           /\ ~ \E p \in Procs : pc[p] = "insert" /\ pc'[p] = "flush")
            => AllDefault(make_canvas_response(db').pixels)
       /\ (/\ scanning /\ ~scanning'
           /\ \A g \in scanGrids : AllDefault(g))
            => /\ AllDefault(lastResp'.pixels)
               /\ Len(lastResp'.pixels) = CANVAS_HEIGHT
               /\ \A r \in 1..CANVAS_HEIGHT :
                    Len(lastResp'.pixels[r]) = CANVAS_WIDTH
      ]_vars

\* both corners were painted, a reset has succeeded, and the GET /canvas that
\* ran after it returned an all-default grid
C14_Witness ==
    /\ lastResp.kind = "canvas"
    /\ AllDefault(lastResp.pixels)
    /\ db = EmptyTree
    /\ disk = EmptyTree
    /\ Len(appended) = 2

\* C15: answering GET /updates, for any cursor, changes neither the journal
\* (contents and order) nor the grid, in memory or on disk.
C15_PollMutatesNothing ==
    [][\A since \in SinceInputs :
         GetUpdates(since) =>
            /\ history' = history
            /\ appended' = appended
            /\ db' = db
            /\ disk' = disk
            /\ make_canvas_response(db') = make_canvas_response(db)
      ]_vars

\* a poll was answered with the one event of the journal, which is still there
C15_Witness ==
    /\ lastResp.kind = "updates"
    /\ Len(lastResp.updates) = 1
    /\ history = lastResp.updates
    /\ db # EmptyTree

\* C16 as the specification words it: a failed write reports success = false
\* with the error "out_of_bounds" or "persist_error", a successful one
\* success = true with no error.
C16_AsClaimed ==
    lastResp.kind = "pixel" =>
        IF lastResp.success THEN lastResp.error = "none"
        ELSE lastResp.error \in {"out_of_bounds", "persist_error"}

\* C16 as the code has it: a failed write reports success = false with the
\* error "out_of_bounds", "db_write_error" or "db_flush_error", a successful
\* one success = true with no error.
C16_WriteErrorContract ==
    lastResp.kind = "pixel" =>
        IF lastResp.success THEN lastResp.error = "none"
        ELSE lastResp.error \in
                 {"out_of_bounds", "db_write_error", "db_flush_error"}

\* a write was refused because its flush failed: the tree holds the color,
\* the disk does not, and the journal got no entry
C16_Witness ==
    /\ lastResp.kind = "pixel"
    /\ ~lastResp.success
    /\ lastResp.error = "db_flush_error"
    /\ db # disk
    /\ appended = <<>>

\* C17: once a SetCell(x, y, c) has been answered with success and no later
\* db.insert has written the cell and no db.clear has run (lastWrite still
\* shows that write, acknowledged), the flushed tree holds c for (x, y), and
\* so does the snapshot of the tree in memory, before and after any restart.
C17_AcknowledgedWriteIsDurable ==
    \A cell \in DOMAIN lastWrite :
        lastWrite[cell].acked =>
            /\ read_pixel(disk, cell[1], cell[2]) = lastWrite[cell].color
            /\ make_canvas_response(db).pixels[cell[2] + 1][cell[1] + 1]
                   = lastWrite[cell].color

\* after a restart (the history is new) a cell still shows the colour of an
\* acknowledged write, while another handler's insert was lost with the
\* process
C17_Witness ==
    /\ history = <<>>
    /\ \E cell \in Cells :
         /\ lastWrite[cell].acked
         /\ lastWrite[cell].color # DEFAULT_COLOR
         /\ read_pixel(db, cell[1], cell[2]) = lastWrite[cell].color
    /\ \E cell \in Cells :
         /\ lastWrite[cell].who # "none"
         /\ ~lastWrite[cell].acked
         /\ read_pixel(db, cell[1], cell[2]) # lastWrite[cell].color

\* C18: init_app_state takes the `if` arm exactly when the file exists, and
\* then the canvas is the file's, which is left as it was; it takes the
\* `else` arm when there is no file, and then the canvas has the build's
\* dimensions and every cell the default colour, and the file holds it; in
\* both cases, once init_app_state has returned, the file exists and equals
\* the canvas.
C18_InitializeLoadsOrCreates ==
    [][/\ bpc = "start" =>
            bpc' = IF file \in CanvasFiles \cup {Unparsable} THEN "read"
                   ELSE "create"
       /\ (bpc = "read" /\ bpc' = "ready") =>
            /\ canvas' = file
            /\ file' = file
       /\ (bpc = "create" /\ bpc' = "ready") =>
            /\ canvas'.width = CANVAS_WIDTH
            /\ canvas'.height = CANVAS_HEIGHT
            /\ Len(canvas'.pixels) = CANVAS_HEIGHT
            /\ \A r \in 1..CANVAS_HEIGHT : Len(canvas'.pixels[r]) = CANVAS_WIDTH
            /\ AllDefault(canvas'.pixels)
            /\ file' = canvas'
       /\ bpc' = "ready" =>
            /\ file' \in CanvasFiles
            /\ file' = canvas']_vars

\* init_app_state has returned with a painted canvas loaded from the file
C18_Witness ==
    /\ bpc = "ready"
    /\ canvas = file
    /\ \E r \in 1..canvas.height, c \in 1..canvas.width :
         canvas.pixels[r][c] # DEFAULT_COLOR

\* init_app_state has returned on a path that held no file: the blank canvas
\* has been created and saved
C18_WitnessCreated ==
    /\ bpc = "ready"
    /\ canvas = file
    /\ canvas = create_blank_canvas(CANVAS_WIDTH, CANVAS_HEIGHT)

\* a CanvasResponse of the build's dimensions: height rows of width cells,
\* each a colour
WellShaped(r) ==
    /\ r.width = CANVAS_WIDTH
    /\ r.height = CANVAS_HEIGHT
    /\ Len(r.pixels) = CANVAS_HEIGHT
    /\ \A y \in 1..CANVAS_HEIGHT :
         /\ Len(r.pixels[y]) = CANVAS_WIDTH
         /\ \A x \in 1..CANVAS_WIDTH : r.pixels[y][x] \in Colors

\* C19: in every state reached by writes (successful or failed), resets and
\* restarts, the snapshot of the tree has the build's width and height,
\* height rows of width cells, each cell a colour, and a cell whose key the
\* tree does not hold (never written, or cleared) reads as the default
\* colour; every response GET /canvas has returned has that shape too.
C19_GridShape ==
    /\ WellShaped(make_canvas_response(db))
    /\ \A cell \in Cells :
         make_key(cell[1], cell[2]) \notin DOMAIN db =>
             make_canvas_response(db).pixels[cell[2] + 1][cell[1] + 1]
                 = DEFAULT_COLOR
    /\ lastResp.kind = "canvas" => WellShaped(lastResp)

\* a GET /canvas answered after a write and a restart: one cell painted, one
\* whose key the tree does not hold
C19_Witness ==
    /\ lastResp.kind = "canvas"
    /\ history = <<>>
    /\ \E cell \in Cells :
         /\ lastWrite[cell].acked
         /\ lastResp.pixels[cell[2] + 1][cell[1] + 1] # DEFAULT_COLOR
    /\ \E cell \in Cells :
         /\ make_key(cell[1], cell[2]) \notin DOMAIN db
         /\ lastResp.pixels[cell[2] + 1][cell[1] + 1] = DEFAULT_COLOR

\* the events pruned from the journal so far: every event pushed that the
\* journal no longer holds
Evicted == SubSeq(appended, 1, Len(appended) - Len(history))

\* the step is a GET /updates?since= and its answer
Polled(since) ==
    /\ nreq' # nreq
    /\ lastResp'.kind = "updates"
    /\ lastResp'.since = since
    /\ GetUpdates(since)

\* C20 as the specification words it: a GET /updates answered with
\* reset_required = true finds an event later than the cursor among those
\* already evicted.
C20_AsClaimed ==
    [][\A since \in SinceInputs :
         (Polled(since) /\ lastResp'.reset_required) =>
            \E i \in 1..Len(Evicted) : Evicted[i].timestamp > since]_vars

\* C20 as the code has it: a GET /updates answered with reset_required = true
\* finds the journal at its 50 entries and the cursor before the timestamp
\* of the front entry, whether or not anything has been evicted: a journal
\* that has received exactly 50 appends and evicted nothing answers a cursor
\* before its front entry with reset_required = true.
C20_ResetMeansFullAndStale ==
    [][\A since \in SinceInputs :
         Polled(since) =>
            /\ lastResp'.reset_required =>
                  /\ Len(history) = HISTORY_LIMIT
                  /\ since < history[1].timestamp
            /\ (/\ Len(appended) = HISTORY_LIMIT
                /\ Evicted = <<>>
                /\ since < history[1].timestamp) =>
                  lastResp'.reset_required]_vars

\* the journal has received exactly 50 events and evicted none; a poll with
\* a cursor before all of them has been answered with reset_required = true
C20_Witness ==
    /\ Len(appended) = HISTORY_LIMIT
    /\ history = appended
    /\ lastResp.kind = "updates"
    /\ lastResp.reset_required
    /\ \A i \in 1..Len(appended) : appended[i].timestamp > lastResp.since

\* C21: a GET /updates answered with reset_required = false returns every
\* event ever pushed whose timestamp is later than the cursor: none of them
\* has been evicted, and every one the journal holds is among the events.
C21_IncrementalAnswerComplete ==
    [][\A since \in SinceInputs :
         (Polled(since) /\ ~lastResp'.reset_required) =>
            /\ \A i \in 1..Len(Evicted) : Evicted[i].timestamp <= since
            /\ lastResp'.updates = Newer(history, since)]_vars

\* C22: the step in which update_pixel_handler answers success pushes exactly
\* one event, carrying the x, y and color of the request, to the back of the
\* journal, and no other step pushes an event; and a GET /updates answered
\* without reset_required returns every event the journal still holds whose
\* timestamp is later than the cursor.
C22_AcknowledgedWriteIsJournaled ==
    [][/\ \A p \in Procs :
            (/\ pc[p] # "idle"
             /\ pc'[p] = "idle"
             /\ lastResp'.kind = "pixel"
             /\ lastResp'.success) =>
                /\ appended' = Append(appended, Requested(p))
                /\ history' # <<>>
                /\ history'[Len(history')] = Requested(p)
       /\ appended' # appended =>
            \E p \in Procs : LogAppend(p) /\ lastResp' = PixelOk
       /\ \A since \in SinceInputs :
            (Polled(since) /\ ~lastResp'.reset_required) =>
                \A i \in 1..Len(history) :
                    history[i].timestamp > since =>
                        \E j \in 1..Len(lastResp'.updates) :
                            lastResp'.updates[j] = history[i]]_vars

\* a write was acknowledged when the journal was full, and a later poll with
\* a cursor below its timestamp was answered with its event
C22_Witness ==
    /\ Len(appended) = HISTORY_LIMIT + 1
    /\ lastResp.kind = "updates"
    /\ ~lastResp.reset_required
    /\ lastResp.since < appended[Len(appended)].timestamp
    /\ lastResp.updates # <<>>
    /\ lastResp.updates[Len(lastResp.updates)] = appended[Len(appended)]
    /\ history[Len(history)] = appended[Len(appended)]

\* C23: no step of reset_canvas_handler, whether the reset succeeds or fails,
\* changes the journal or pushes an event, so every cursor gets the same
\* answer after the step as before it; and the answer of a GET /updates is
\* what fetch_updates_since makes of the journal and the cursor alone,
\* whatever resets have run.
C23_ResetLeavesJournal ==
    [][/\ rpc' # rpc =>
            /\ history' = history
            /\ appended' = appended
            /\ \A since \in SinceInputs :
                 fetch_updates_since(history', since)
                     = fetch_updates_since(history, since)
       /\ \A since \in SinceInputs :
            Polled(since) =>
                /\ lastResp'.updates
                       = fetch_updates_since(history, since).updates
                /\ lastResp'.reset_required
                       = fetch_updates_since(history, since).reset_required
                /\ DOMAIN lastResp'
                       = {"kind", "status", "since", "updates", "reset_required"}
      ]_vars

\* after a reset that succeeded (tree and store empty) a poll from cursor 0
\* was answered with the two events of before the reset
C23_Witness ==
    /\ db = EmptyTree
    /\ disk = EmptyTree
    /\ lastResp.kind = "updates"
    /\ ~lastResp.reset_required
    /\ lastResp.updates = PaintedEvents
    /\ history = lastResp.updates

\* C24: a POST /pixel whose db.flush fails answers with the failure
\* "db_flush_error" and returns without pushing an event (the handler goes on
\* to log_pixel_update only when the flush has made the tree durable); the
\* failure undoes nothing in the tree, so the snapshot shows the color of the
\* request at its cell unless another request has inserted that cell or
\* cleared the tree since.
C24_FailedFlushKeepsMemory ==
    [][\A p \in Procs :
         /\ (DbFlush(p) /\ pc'[p] = "idle") =>
              /\ lastResp' = PixelErr("db_flush_error")
              /\ ~lastResp'.success
              /\ history' = history
              /\ appended' = appended
              /\ db' = db
              /\ disk' = disk
              /\ lastWrite[<<req[p].x, req[p].y>>].who = p =>
                    make_canvas_response(db').pixels[req[p].y + 1][req[p].x + 1]
                        = req[p].color
         /\ (DbFlush(p) /\ pc'[p] = "log") => disk' = db]_vars

\* a write has failed at its flush: the tree shows its color, the store does
\* not, and no event was pushed
C24_Witness ==
    /\ lastResp = PixelErr("db_flush_error")
    /\ appended = <<>>
    /\ \A p \in Procs : pc[p] = "idle"
    /\ \E cell \in Cells :
         /\ lastWrite[cell].who # "none"
         /\ ~lastWrite[cell].acked
         /\ lastWrite[cell].color # DEFAULT_COLOR
         /\ read_pixel(db, cell[1], cell[2]) = lastWrite[cell].color
         /\ read_pixel(disk, cell[1], cell[2]) = DEFAULT_COLOR

\* the response reports a failure of db.insert, db.flush or db.clear
PersistenceFailure(r) ==
    \/ /\ r.kind = "pixel"
       /\ ~r.success
       /\ r.error \in {"db_write_error", "db_flush_error"}
    \/ /\ r.kind = "reset"
       /\ ~r.success

\* the response reports the failure of the bounds test
ValidationFailure(r) ==
    /\ r.kind = "pixel"
    /\ ~r.success
    /\ r.error = "out_of_bounds"

\* C25: a response that reports a persistence failure carries a server-side
\* status (5xx), one that reports out-of-bounds a client-side status (4xx):
\* the two kinds of failure never carry the same status.
C25_FailureClassesHaveDistinctStatus ==
    /\ PersistenceFailure(lastResp) => lastResp.status \in 500..599
    /\ ValidationFailure(lastResp) => lastResp.status \in 400..499

\* C26: no step of any handler (write, poll, snapshot or reset) makes the
\* journal shorter, and once the journal holds 50 entries every step leaves
\* it at 50 entries.
C26_JournalNeverShrinks ==
    [][/\ Len(history') >= Len(history)
       /\ Len(history) = HISTORY_LIMIT => Len(history') = HISTORY_LIMIT]_vars

\* the journal filled up in this run, then took another push: it holds 50
\* entries, one pushed event is gone, and a reset has cleared the tree
C26_Witness ==
    /\ Len(appended) = HISTORY_LIMIT + 1
    /\ Len(history) = HISTORY_LIMIT
    /\ history[1] = appended[2]
    /\ db = EmptyTree

\* the positions of the events pushed for cell (x, y)
EventsOf(x, y) == {i \in 1..Len(appended) : appended[i].x = x /\ appended[i].y = y}

\* C27: when no handler is running and every request accepted so far was a
\* write that succeeded (each has pushed its event: no reset, no failure),
\* the newest event pushed for a cell carries the color the tree holds for
\* that cell.
C27_NewestEventMatchesGrid ==
    (/\ \A p \in Procs : pc[p] = "idle"
     /\ rpc = "idle"
     /\ Len(appended) = nreq)
    => \A cell \in Cells :
          EventsOf(cell[1], cell[2]) # {} =>
              LET newest == CHOOSE i \in EventsOf(cell[1], cell[2]) :
                               \A j \in EventsOf(cell[1], cell[2]) : j <= i
              IN appended[newest].color = read_pixel(db, cell[1], cell[2])

\* C28: once a GET /updates has been answered without reset_required and
\* with events, an event pushed afterwards has a timestamp strictly greater
\* than the cursor a client takes from that answer (the largest timestamp
\* returned), so that the client's next poll returns it.
C28_NoEventSkippedByCursor ==
    [][(/\ lastResp.kind = "updates"
        /\ ~lastResp.reset_required
        /\ lastResp.updates # <<>>
        /\ Len(appended') = Len(appended) + 1)
       => LET cursor == LatestSeen(lastResp.since, lastResp.updates)
              pushed == appended'[Len(appended')]
          IN /\ pushed.timestamp > cursor
             /\ \E i \in 1..Len(fetch_updates_since(history', cursor).updates) :
                   fetch_updates_since(history', cursor).updates[i] = pushed
      ]_vars

\* C29: under fair scheduling every request that has started completes: a
\* POST /pixel handler returns, also one waiting for the history lock; a GET
\* /canvas in progress ends; a POST /reset in progress ends; a GET /updates
\* waiting for or holding the history lock is answered.
C29_EveryRequestCompletes ==
    /\ \A p \in Procs : (pc[p] # "idle") ~> (pc[p] = "idle")
    /\ scanning ~> ~scanning
    /\ (rpc # "idle") ~> (rpc = "idle")
    /\ (client.pc # "ready") ~> (client.pc = "ready")

\* a handler holds the write guard while a poll waits for the lock
C29_Witness ==
    /\ \E p \in Procs : pc[p] = "locked"
    /\ client.pc = "waiting"


====
